---- MODULE Spec2Model ----
(***************************************************************************)
(* Model of the evaluation harness: EvaluationRunner (src/src/runner.py),  *)
(* the metric adapters (src/src/metrics/*.py) and the values they hand to  *)
(* the runner, and the driver that builds them and loads the data          *)
(* (src/main.py).                                                          *)
(*                                                                         *)
(* Python values are encoded as follows.                                   *)
(*   - a text or a float cell is an integer: Text(j) = 100 + j is a text,  *)
(*     Label(j) = 200 + j a label, small integers are scores;              *)
(*   - a value of a Dict[str, ...] is a record [kind, list, num]:          *)
(*     kind "list" is a Python list (field list), kind "float" is a bare   *)
(*     Python float (field num), kind "str" a string (field num);          *)
(*   - a dict is the sequence of its items in insertion order;             *)
(*   - a DataFrame is [index, columns, data]: index is the number of rows, *)
(*     columns the column names in order, data[j] the cells of columns[j]; *)
(*   - DataFrames live in a heap and are named by references, so that a    *)
(*     copy and an alias are different things.                             *)
(***************************************************************************)
EXTENDS Integers, Sequences, FiniteSets, TLC

VARIABLES
    heap,         \* reference -> DataFrame
    data,         \* the caller's table (a reference)
    metrics,      \* EvaluationRunner.metrics
    results_df,   \* run's local results_df (a reference, 0 before run)
    predictions,  \* run's local predictions
    references,   \* run's local references
    i,            \* position of the outer loop in metrics
    scores_dict,  \* run's local scores_dict
    k,            \* position of the inner loop in scores_dict.items()
    pc,           \* "new", "no_adapter", "no_runner", "ready", "loaded", "skipped",
                  \* "loop", "merge", "returned", "raised", "saved"
    exc,          \* the exception that left run or the constructor
    result,       \* the reference run returned (0: none)
    calls,        \* history: the compute calls made, with arguments and outcome
    merged,       \* history: the columns stored, in order
    warnings,     \* history: the mismatch warnings printed
    input0,       \* history: the caller's table as it was before the run
    driver,       \* who uses the runner: "main" (main.py) or "caller" (any other)
    adapters,     \* the adapters constructed so far, in order
    fs,           \* the data directory main.py reads
    log,          \* what load_data_from_files printed: "none", "warning", "error"
    saved         \* history: the tables save_results wrote

vars == <<heap, data, metrics, results_df, predictions, references,
          i, scores_dict, k, pc, exc, result, calls, merged, warnings, input0,
          driver, adapters, fs, log, saved>>

\* ---------------------------------------------------------------- bounds
MaxRows == 2

MaxMetrics == 2

MaxFiles == 2

\* ------------------------------------------------------- generic helpers
Range(s) == {s[j] : j \in 1..Len(s)}

Ramp(b, n) == [j \in 1..n |-> b + j - 1]

Fill(v, n) == [j \in 1..n |-> v]

IndexOf(s, x) == IF \E j \in 1..Len(s) : s[j] = x
                 THEN CHOOSE j \in 1..Len(s) : s[j] = x
                 ELSE 0

Text(j) == 100 + j

Label(j) == 200 + j

\* ----------------------------------------------------------- Python values
PyList(s) == [kind |-> "list", list |-> s, num |-> 0]

PyFloat(x) == [kind |-> "float", list |-> <<>>, num |-> x]

PyStr(x) == [kind |-> "str", list |-> <<>>, num |-> x]

Item(key, val) == [key |-> key, val |-> val]

Keys(d) == {d[j].key : j \in 1..Len(d)}

\* dict.get(key, default) for a dict whose values are floats
DictGet(d, key, default) ==
    IF key \in Keys(d) THEN d[IndexOf([j \in 1..Len(d) |-> d[j].key], key)].val.num
    ELSE default

\* dict.pop(key, None): the dict without that key
DictPop(d, key) == SelectSeq(d, LAMBDA it : it.key # key)

\* ------------------------------------------------------------- DataFrames
NoFrame == [index |-> 0, columns |-> <<>>, data |-> <<>>]

OriginalCol == "original_text"

DegradedCol == "degraded_text"

LabelCol == "degradation_type"

BaseColumns == <<OriginalCol, DegradedCol, LabelCol>>

\* the table load_data_from_files builds when original.txt and n-1 variant
\* files exist: row 1 compares the reference text with itself
FilesFrame(n) ==
    [index |-> n, columns |-> BaseColumns,
     data |-> << Fill(Text(0), n), [j \in 1..n |-> Text(j - 1)],
                 [j \in 1..n |-> Label(j)] >>]

\* a table of n hand-written samples, every text distinct
UserFrame(n) ==
    [index |-> n, columns |-> BaseColumns,
     data |-> << [j \in 1..n |-> Text(10 + j)], [j \in 1..n |-> Text(20 + j)],
                 [j \in 1..n |-> Label(j)] >>]

InputTables == {FilesFrame(n) : n \in 1..MaxRows} \cup {UserFrame(n) : n \in 1..MaxRows}

HasColumn(frame, name) == name \in Range(frame.columns)

\* frame[name].tolist()
Column(frame, name) == frame.data[IndexOf(frame.columns, name)]

\* len(frame)
FrameLen(frame) == frame.index

\* frame[name] = values, values a Python list: pandas refuses a list whose
\* length differs from the index of a frame that has rows; an existing
\* column is replaced in place, a new one is appended on the right.
SetItemResize(frame, name, values) ==
    [raises |-> FALSE,
     frame |->
        LET n == Len(values)
            cut(col) == [j \in 1..n |-> IF j <= Len(col) THEN col[j] ELSE 0]
            old == [c \in 1..Len(frame.data) |-> cut(frame.data[c])]
        IN IF HasColumn(frame, name)
           THEN [index |-> n, columns |-> frame.columns,
                 data |-> [old EXCEPT ![IndexOf(frame.columns, name)] = values]]
           ELSE [index |-> n, columns |-> Append(frame.columns, name),
                 data |-> Append(old, values)]]

SetItemKeepFirst(frame, name, values) ==
    IF Len(values) # frame.index
    THEN [raises |-> TRUE, frame |-> frame]
    ELSE [raises |-> FALSE,
          frame |-> IF HasColumn(frame, name) THEN frame
                    ELSE [frame EXCEPT !.columns = Append(@, name),
                                       !.data = Append(@, values)]]

SetItem(frame, name, values) ==
    IF Len(values) # frame.index
    THEN [raises |-> TRUE, frame |-> frame]
    ELSE [raises |-> FALSE,
          frame |-> IF HasColumn(frame, name)
                    THEN [frame EXCEPT !.data[IndexOf(frame.columns, name)] = values]
                    ELSE [frame EXCEPT !.columns = Append(@, name),
                                       !.data = Append(@, values)]]

\* data.copy(): a new frame object with the same content
CopyRefAlias(ref) == ref

CopyRef(ref) == ref + 1


\* --------------------------------------------------------- scoring backends
\* What a backend hands to its wrapper: it raises, or it returns a dict
\* (items), or, for the BLEURT model, a tensor of logits.
NoTensor == [shape |-> <<>>, flat |-> <<>>]

Raises == [raises |-> TRUE, items |-> <<>>, tensor |-> NoTensor]

Returns(items) == [raises |-> FALSE, items |-> items, tensor |-> NoTensor]

ReturnsTensor(t) == [raises |-> FALSE, items |-> <<>>, tensor |-> t]

ScoreBases == {0, 5}

\* per-sample score lists of length n, every row a different value
ScoreLists(n) == {Ramp(b, n) : b \in ScoreBases}

MockNames == {"x", DegradedCol, OriginalCol}

AdapterKinds == {"BleuWrapper", "MeteorWrapper", "RougeWrapper",
                 "BERTScoreWrapper", "SummaCWrapper", "BLEURTWrapper", "Mock"}

\* the results of the backend of an adapter for n prediction/reference pairs
Backends(kind, n) ==
    {Raises} \cup
    CASE kind = "BleuWrapper" ->
           {Returns(<<>>)} \cup {Returns(<<Item("bleu", PyFloat(b))>>) : b \in ScoreBases}
      [] kind = "MeteorWrapper" ->
           {Returns(<<>>)} \cup {Returns(<<Item("meteor", PyFloat(b))>>) : b \in ScoreBases}
      [] kind = "RougeWrapper" ->
           {Returns(<<Item("rouge1", PyFloat(b)), Item("rouge2", PyFloat(b + 1)),
                      Item("rougeL", PyFloat(b + 2)), Item("rougeLsum", PyFloat(b + 3))>>) :
               b \in ScoreBases}
      [] kind = "BERTScoreWrapper" ->
           {Returns(<<Item("precision", PyList(s)), Item("recall", PyList(s)),
                      Item("f1", PyList(s)), Item("hashcode", PyStr(0))>>) :
               s \in ScoreLists(n)}
      [] kind = "SummaCWrapper" ->
           {Returns(<<Item("scores", PyList(s))>>) : s \in ScoreLists(n)}
      [] kind = "BLEURTWrapper" ->
           \* logits of a regression head: one row per pair, one column
           {ReturnsTensor([shape |-> <<n, 1>>, flat |-> s]) : s \in ScoreLists(n)}
      [] OTHER ->
           \* a mock adapter returns whatever it likes, of the right length
           \* or one short
           {Returns(<<Item(name, PyList(s))>>) :
               name \in MockNames,
               s \in ScoreLists(n) \cup (IF n > 0 THEN ScoreLists(n - 1) ELSE {})}

\* ---------------------------------------------------------------- adapters
\* what compute gives back to its caller
Raised == [raised |-> TRUE, dict |-> <<>>]

Returned(d) == [raised |-> FALSE, dict |-> d]

\* torch.Tensor.squeeze(): every dimension of size 1 is removed
Squeeze(t) == [shape |-> SelectSeq(t.shape, LAMBDA dim : dim # 1), flat |-> t.flat]

\* torch.Tensor.tolist(): a 0-dimensional tensor gives a bare number, a
\* 1-dimensional tensor a list of numbers
ToList(t) ==
    IF Len(t.shape) = 0 THEN PyFloat(t.flat[1])
    ELSE IF Len(t.shape) = 1 THEN PyList(t.flat)
    ELSE [kind |-> "nested", list |-> t.flat, num |-> 0]

BleuComputeNoBroadcast(preds, refs, b) ==
    IF b.raises THEN Raised
    ELSE Returned(<<Item("bleu_score", PyList(<<DictGet(b.items, "bleu", 0)>>))>>)

BleuCompute(preds, refs, b) ==
    IF b.raises THEN Raised
    ELSE Returned(<<Item("bleu_score",
                         PyList(Fill(DictGet(b.items, "bleu", 0), Len(preds))))>>)

MeteorCompute(preds, refs, b) ==
    IF b.raises THEN Raised
    ELSE Returned(<<Item("meteor_score",
                         PyList(Fill(DictGet(b.items, "meteor", 0), Len(preds))))>>)

\* "rouge_" + key
RougeName(key) ==
    CASE key = "rouge1" -> "rouge_rouge1"
      [] key = "rouge2" -> "rouge_rouge2"
      [] key = "rougeL" -> "rouge_rougeL"
      [] OTHER -> "rouge_rougeLsum"

RougeCompute(preds, refs, b) ==
    IF b.raises THEN Raised
    ELSE Returned([j \in 1..Len(b.items) |->
                     Item(RougeName(b.items[j].key),
                          PyList(Fill(b.items[j].val.num, Len(preds))))])

\* "bertscore_" + key
BERTScoreName(key) ==
    CASE key = "precision" -> "bertscore_precision"
      [] key = "recall" -> "bertscore_recall"
      [] key = "f1" -> "bertscore_f1"
      [] OTHER -> "bertscore_hashcode"

BERTScoreCompute(preds, refs, b) ==
    IF b.raises THEN Raised
    ELSE LET scores == DictPop(b.items, "hashcode")
         IN Returned([j \in 1..Len(scores) |->
                        Item(BERTScoreName(scores[j].key), scores[j].val)])

SummaCCompute(preds, refs, b) ==
    IF b.raises THEN Raised
    ELSE Returned(<<Item("summac_conv_score",
                         b.items[IndexOf([j \in 1..Len(b.items) |-> b.items[j].key],
                                         "scores")].val)>>)

BLEURTCompute(preds, refs, b) ==
    IF b.raises THEN Raised
    ELSE Returned(<<Item("bleurt_score", ToList(Squeeze(b.tensor)))>>)

MockCompute(preds, refs, b) ==
    IF b.raises THEN Raised ELSE Returned(b.items)

\* metric.compute(predictions, references), by the class of metric
AdapterCompute(kind, preds, refs, b) ==
    CASE kind = "BleuWrapper" -> BleuCompute(preds, refs, b)
      [] kind = "MeteorWrapper" -> MeteorCompute(preds, refs, b)
      [] kind = "RougeWrapper" -> RougeCompute(preds, refs, b)
      [] kind = "BERTScoreWrapper" -> BERTScoreCompute(preds, refs, b)
      [] kind = "SummaCWrapper" -> SummaCCompute(preds, refs, b)
      [] kind = "BLEURTWrapper" -> BLEURTCompute(preds, refs, b)
      [] OTHER -> MockCompute(preds, refs, b)


\* --------------------------------------------------------------- ingestion
\* A file name is <<stem, extension>>; a file of the degraded directory has a
\* name and a content. os.listdir gives the entries in any order.
File(stem, ext) == [name |-> <<stem, ext>>, content |-> Text(stem)]

VariantFiles == {File(1, "txt"), File(2, "txt"), File(3, "md")}

Listings ==
    UNION {{l \in [1..n -> VariantFiles] :
                \A a \in 1..n : \A b \in 1..n : l[a] = l[b] => a = b} :
           n \in 0..MaxFiles}

\* original: data/original.txt exists; degraded_dir: data/degraded is a
\* directory; listing: os.listdir of it
NoFiles == [original |-> FALSE, degraded_dir |-> FALSE, listing |-> <<>>]

FileSystems ==
    {[original |-> o, degraded_dir |-> FALSE, listing |-> <<>>] : o \in BOOLEAN} \cup
    {[original |-> o, degraded_dir |-> TRUE, listing |-> l] : o \in BOOLEAN, l \in Listings}

\* filename.endswith('.txt')
EndsWithTxtAny(name) == TRUE

EndsWithTxt(name) == name[Len(name)] = "txt"

\* os.path.splitext(filename)[0]
SplitExtStem(name) == name[1]

\* pd.DataFrame(columns=[...]): the columns and no row
EmptyFrame == [index |-> 0, columns |-> BaseColumns, data |-> <<<<>>, <<>>, <<>>>>]

\* pd.DataFrame(records), records a non-empty list of dicts with these keys
FrameOfRecords(records) ==
    [index |-> Len(records), columns |-> BaseColumns,
     data |-> << [j \in 1..Len(records) |-> records[j].original_text],
                 [j \in 1..Len(records) |-> records[j].degraded_text],
                 [j \in 1..Len(records) |-> records[j].degradation_type] >>]

\* load_data_from_files(): the table and what was printed
LoadDataFromFiles(f) ==
    IF ~f.original
    THEN [frame |-> EmptyFrame, log |-> "error"]
    ELSE LET original_content == Text(0)
             self == [original_text |-> original_content,
                      degraded_text |-> original_content,
                      degradation_type |-> Label(0)]
             txt == IF f.degraded_dir
                    THEN SelectSeq(f.listing, LAMBDA e : EndsWithTxt(e.name))
                    ELSE <<>>
             records == <<self>> \o
                        [j \in 1..Len(txt) |->
                            [original_text |-> original_content,
                             degraded_text |-> txt[j].content,
                             degradation_type |-> Label(SplitExtStem(txt[j].name))]]
         IN [frame |-> FrameOfRecords(records),
             log |-> IF Len(records) <= 1 THEN "warning" ELSE "none"]

\* DataFrame.empty
IsEmpty(frame) == frame.index = 0 \/ Len(frame.columns) = 0

\* frame.sort_values(by=name): the rows in ascending order of that column,
\* rows with equal keys in their old order
SortValues(frame, name) ==
    LET key == Column(frame, name)
        n == frame.index
        rank(r) == 1 + Cardinality({q \in 1..n : key[q] < key[r] \/ (key[q] = key[r] /\ q < r)})
        at(pos) == CHOOSE r \in 1..n : rank(r) = pos
    IN [frame EXCEPT !.data = [c \in 1..Len(frame.data) |->
                                  [pos \in 1..n |-> frame.data[c][at(pos)]]]]

\* ------------------------------------------------------------------ runner
MetricLists == UNION {[1..n -> AdapterKinds] : n \in 0..MaxMetrics}

Init ==
    /\ data = 1
    /\ heap = <<NoFrame, NoFrame, NoFrame>>
    /\ input0 = NoFrame
    /\ metrics = <<>>
    /\ results_df = 0
    /\ predictions = <<>>
    /\ references = <<>>
    /\ i = 0
    /\ scores_dict = <<>>
    /\ k = 0
    /\ pc = "new"
    /\ exc = "none"
    /\ result = 0
    /\ calls = <<>>
    /\ merged = <<>>
    /\ warnings = <<>>
    /\ driver \in {"main", "caller"}
    /\ adapters = <<>>
    /\ fs \in IF driver = "main" THEN FileSystems ELSE {NoFiles}
    /\ log = "none"
    /\ saved = <<>>

\* ------------------------------------------------- adapter construction
\* What a constructor meets: found: the local resource it looks for is on
\* disk; download: what nltk.download does when asked ("true": fetched,
\* "false": failed and said so by its return value, "raises"); load: whether
\* loading the backend (evaluate.load, from_pretrained, ...) succeeds.
CtorEnv(found, download, load) == [found |-> found, download |-> download, load |-> load]

CtorEnvs(kind) ==
    CASE kind = "BLEURTWrapper" ->
           {CtorEnv(f, "none", l) : f \in BOOLEAN, l \in {"ok", "raises"}}
      [] kind = "MeteorWrapper" ->
           {CtorEnv(TRUE, "none", l) : l \in {"ok", "raises"}} \cup
           {CtorEnv(FALSE, d, l) : d \in {"true", "false", "raises"}, l \in {"ok", "raises"}}
      [] kind = "Mock" -> {CtorEnv(TRUE, "none", "ok")}
      [] OTHER -> {CtorEnv(TRUE, "none", l) : l \in {"ok", "raises"}}

\* the outcome of a constructor: it raises exc, or it gives an adapter whose
\* local resource is (resource) or is not on disk
CtorRaises(e) == [raises |-> TRUE, exc |-> e, resource |-> FALSE]

Constructed(resource) == [raises |-> FALSE, exc |-> "none", resource |-> resource]

\* BLEURTWrapper.__init__
BLEURTInit(env) ==
    IF ~env.found THEN CtorRaises("FileNotFoundError")
    ELSE IF env.load = "raises" THEN CtorRaises("LoadError")
    ELSE Constructed(TRUE)

\* MeteorWrapper.__init__
MeteorInit(env) ==
    IF ~env.found /\ env.download = "raises" THEN CtorRaises("LookupError")
    ELSE IF env.load = "raises" THEN CtorRaises("LoadError")
    ELSE Constructed(env.found \/ env.download = "true")

\* the constructors that look for no local resource themselves
PlainInit(env) ==
    IF env.load = "raises" THEN CtorRaises("LoadError") ELSE Constructed(TRUE)

AdapterInit(kind, env) ==
    CASE kind = "BLEURTWrapper" -> BLEURTInit(env)
      [] kind = "MeteorWrapper" -> MeteorInit(env)
      [] OTHER -> PlainInit(env)

\* metrics_to_run of main.py
MainMetrics == <<"BleuWrapper", "RougeWrapper", "MeteorWrapper">>

KindsOf(ads) == [j \in 1..Len(ads) |-> ads[j].kind]

\* the kinds the driver may construct next
NextKinds ==
    IF driver = "main"
    THEN IF Len(adapters) < Len(MainMetrics) THEN {MainMetrics[Len(adapters) + 1]} ELSE {}
    ELSE {kind \in AdapterKinds : Append(KindsOf(adapters), kind) \in MetricLists}

\* kind(...) in the driver, before the runner exists
NewAdapter(kind) ==
    /\ pc = "new"
    /\ kind \in NextKinds
    /\ \E env \in CtorEnvs(kind) :
         LET out == AdapterInit(kind, env)
         IN IF out.raises
            THEN /\ pc' = "no_adapter"
                 /\ exc' = out.exc
                 /\ UNCHANGED adapters
            ELSE /\ adapters' = Append(adapters, [kind |-> kind, resource |-> out.resource])
                 /\ UNCHANGED <<pc, exc>>
    /\ UNCHANGED <<heap, data, metrics, results_df, predictions, references, i,
                   scores_dict, k, result, calls, merged, warnings, input0, driver,
                   fs, log, saved>>

\* "if not metrics" in the constructor
IsRejectedNever(ms) == FALSE

IsRejected(ms) == ms = <<>>

\* EvaluationRunner(ms)
Construct(ms) ==
    /\ pc = "new"
    /\ ms = KindsOf(adapters)
    /\ driver = "main" => Len(adapters) = Len(MainMetrics)
    /\ IF IsRejected(ms)
       THEN /\ pc' = "no_runner"
            /\ exc' = "ValueError"
            /\ UNCHANGED metrics
       ELSE /\ metrics' = ms
            /\ pc' = "ready"
            /\ UNCHANGED exc
    /\ UNCHANGED <<heap, data, results_df, predictions, references, i,
                   scores_dict, k, result, calls, merged, warnings, input0, driver, adapters, fs, log, saved>>

\* sample_data = load_data_from_files() in main.py; any table of the caller's
\* otherwise
LoadData ==
    /\ pc = "ready"
    /\ IF driver = "main"
       THEN /\ heap' = [heap EXCEPT ![data] = LoadDataFromFiles(fs).frame]
            /\ input0' = LoadDataFromFiles(fs).frame
            /\ log' = LoadDataFromFiles(fs).log
       ELSE /\ \E t \in InputTables :
                 /\ heap' = [heap EXCEPT ![data] = t]
                 /\ input0' = t
            /\ UNCHANGED log
    /\ pc' = "loaded"
    /\ UNCHANGED <<data, metrics, results_df, predictions, references, i, scores_dict,
                   k, exc, result, calls, merged, warnings, driver, adapters, fs, saved>>

\* "if not sample_data.empty" in main.py
MayRunAlways(frame) == TRUE

MayRun(frame) == ~IsEmpty(frame)

\* the else branch of main.py: nothing is run, nothing is saved
SkipRun ==
    /\ pc = "loaded"
    /\ driver = "main"
    /\ ~MayRun(heap[data])
    /\ pc' = "skipped"
    /\ UNCHANGED <<heap, data, metrics, results_df, predictions, references, i,
                   scores_dict, k, exc, result, calls, merged, warnings, input0,
                   driver, adapters, fs, log, saved>>

\* runner.run(data, 'original_text', 'degraded_text') up to the loop
RunBegin ==
    /\ pc = "loaded"
    /\ driver = "main" => MayRun(heap[data])
    /\ results_df' = CopyRef(data)
    /\ heap' = [heap EXCEPT ![CopyRef(data)] = heap[data]]
    /\ predictions' = Column(heap'[results_df'], DegradedCol)
    /\ references' = Column(heap'[results_df'], OriginalCol)
    /\ i' = 1
    /\ pc' = "loop"
    /\ UNCHANGED <<data, metrics, scores_dict, k, exc, result, calls, merged, warnings, input0, driver, adapters, fs, log, saved>>

\* the sequences the loop passes to compute
PredictionsArgReread == Column(heap[results_df], DegradedCol)

PredictionsArg == predictions

ReferencesArg == references

\* after an adapter's compute raised: nothing in run catches it
OnComputeRaisedSkip(pos) == [pc |-> "loop", i |-> pos + 1, exc |-> "none"]

OnComputeRaised(pos) == [pc |-> "raised", i |-> pos, exc |-> "ComputeError"]

\* what the backend of a constructed adapter can do: METEOR without wordnet
\* fails at the first score
BackendsOf(adapter, n) ==
    IF adapter.resource THEN Backends(adapter.kind, n) ELSE {Raises}

\* scores_dict = metric.compute(predictions, references)
Compute ==
    /\ pc = "loop"
    /\ i <= Len(metrics)
    /\ \E b \in BackendsOf(adapters[i], Len(PredictionsArg)) :
         LET out == AdapterCompute(metrics[i], PredictionsArg, ReferencesArg, b)
         IN /\ calls' = Append(calls, [pos |-> i, metric |-> metrics[i],
                                       predictions |-> PredictionsArg,
                                       references |-> ReferencesArg,
                                       backend |-> b,
                                       raised |-> out.raised, dict |-> out.dict])
            /\ IF out.raised
               THEN /\ pc' = OnComputeRaised(i).pc
                    /\ i' = OnComputeRaised(i).i
                    /\ exc' = OnComputeRaised(i).exc
                    /\ UNCHANGED <<scores_dict, k>>
               ELSE /\ scores_dict' = out.dict
                    /\ k' = 1
                    /\ pc' = "merge"
                    /\ UNCHANGED <<i, exc>>
    /\ UNCHANGED <<heap, data, metrics, results_df, predictions, references,
                   result, merged, warnings, input0, driver, adapters, fs, log, saved>>

\* the name of the column a score is stored under
ScoreColumnByMetric(metric_name, score_name) == metric_name

ScoreColumn(metric_name, score_name) == score_name

\* one turn of "for score_name, score_values in scores_dict.items()"
MergeItem ==
    /\ pc = "merge"
    /\ k <= Len(scores_dict)
    /\ LET score_name == scores_dict[k].key
           score_values == scores_dict[k].val
           frame == heap[results_df]
       IN IF score_values.kind # "list"
          THEN \* len() of a float
               /\ pc' = "raised"
               /\ exc' = "TypeError"
               /\ UNCHANGED <<heap, k, merged, warnings>>
          ELSE LET set == SetItem(frame, ScoreColumn(metrics[i], score_name),
                                  score_values.list)
               IN /\ warnings' = IF Len(score_values.list) # FrameLen(frame)
                                 THEN Append(warnings, [pos |-> i, name |-> score_name])
                                 ELSE warnings
                  /\ IF set.raises
                     THEN /\ pc' = "raised"
                          /\ exc' = "ValueError"
                          /\ UNCHANGED <<heap, k, merged>>
                     ELSE /\ heap' = [heap EXCEPT ![results_df] = set.frame]
                          /\ merged' = Append(merged, [pos |-> i, name |-> score_name,
                                                       values |-> score_values.list])
                          /\ k' = k + 1
                          /\ UNCHANGED <<pc, exc>>
    /\ UNCHANGED <<data, metrics, results_df, predictions, references, i,
                   scores_dict, result, calls, input0, driver, adapters, fs, log, saved>>

\* the inner loop is exhausted: on to the next metric
NextIndexSkip(pos) == pos + 2

NextIndex(pos) == pos + 1

NextMetric ==
    /\ pc = "merge"
    /\ k > Len(scores_dict)
    /\ i' = NextIndex(i)
    /\ pc' = "loop"
    /\ UNCHANGED <<heap, data, metrics, results_df, predictions, references,
                   scores_dict, k, exc, result, calls, merged, warnings, input0, driver, adapters, fs, log, saved>>

\* the outer loop is exhausted: return results_df
Return ==
    /\ pc = "loop"
    /\ i > Len(metrics)
    /\ result' = results_df
    /\ pc' = "returned"
    /\ UNCHANGED <<heap, data, metrics, results_df, predictions, references, i,
                   scores_dict, k, exc, calls, merged, warnings, input0, driver, adapters, fs, log, saved>>

\* the frame a sort makes is a new object
SortedRef(ref) == ref + 1

\* after run: main.py sorts by label and saves, any other caller saves
SaveResults ==
    /\ pc = "returned"
    /\ IF driver = "main"
       THEN /\ heap' = [heap EXCEPT ![SortedRef(result)] = SortValues(heap[result], LabelCol)]
            /\ result' = SortedRef(result)
       ELSE UNCHANGED <<heap, result>>
    /\ saved' = Append(saved, heap'[result'])
    /\ pc' = "saved"
    /\ UNCHANGED <<data, metrics, results_df, predictions, references, i, scores_dict,
                   k, exc, calls, merged, warnings, input0, driver, adapters, fs, log>>

Next ==
    \/ \E kind \in AdapterKinds : NewAdapter(kind)
    \/ \E ms \in MetricLists \cup {MainMetrics} : Construct(ms)
    \/ LoadData
    \/ SkipRun
    \/ RunBegin
    \/ Compute
    \/ MergeItem
    \/ NextMetric
    \/ Return
    \/ SaveResults

Spec == Init /\ [][Next]_vars


\* ------------------------------------------------------------- properties
RowsOf(ref) == FrameLen(heap[ref])

\* the calls that returned a dict
ReturnedCalls == {j \in 1..Len(calls) : ~calls[j].raised}

\* the score names the adapters returned
ReturnedKeys == UNION {Keys(calls[j].dict) : j \in ReturnedCalls}

\* the last call whose dict holds the key
LastWriter(name) ==
    CHOOSE j \in ReturnedCalls :
        /\ name \in Keys(calls[j].dict)
        /\ \A h \in ReturnedCalls : name \in Keys(calls[h].dict) => h <= j

ValueOf(d, name) == d[IndexOf([j \in 1..Len(d) |-> d[j].key], name)].val

\* C1: whenever run returns, the returned table has exactly as many rows as
\* the input table (its index and every one of its columns), whatever the
\* adapters returned.
C1_RowCountPreserved ==
    pc = "returned" =>
        /\ RowsOf(result) = FrameLen(input0)
        /\ \A c \in 1..Len(heap[result].data) :
               Len(heap[result].data[c]) = FrameLen(input0)

C1_Witness ==
    /\ pc = "returned"
    /\ Len(merged) >= 2
    /\ RowsOf(result) = MaxRows

\* C2: an adapter that returns a score list shorter than the table does not
\* make run raise: after the mismatch warning the run goes on.
C2_MismatchDoesNotRaise ==
    warnings # <<>> => pc # "raised"

\* C3: last writer wins: after run, a column named by two adapters holds the
\* values of the adapter later in the list; every score column holds the
\* values of the last adapter that returned its name.
C3_LastWriterWins ==
    pc = "returned" =>
        \A name \in ReturnedKeys :
            /\ HasColumn(heap[result], name)
            /\ Column(heap[result], name) = ValueOf(calls[LastWriter(name)].dict, name).list

C3_Witness ==
    /\ pc = "returned"
    /\ Len(calls) = 2
    /\ "x" \in Keys(calls[1].dict) \cap Keys(calls[2].dict)
    /\ ValueOf(calls[1].dict, "x") # ValueOf(calls[2].dict, "x")

\* C4: fail fast: when the compute of the adapter at position p raises, the
\* exception leaves run, that call is the last compute call ever made, and
\* run returns no table.
C4_FailFast ==
    \A j \in 1..Len(calls) :
        calls[j].raised =>
            /\ j = Len(calls)
            /\ pc = "raised"
            /\ exc = "ComputeError"
            /\ result = 0

C4_Witness ==
    /\ pc = "raised"
    /\ exc = "ComputeError"
    /\ Len(calls) = 1
    /\ Len(metrics) = 2

\* C5: run never changes the caller's table, whether it is running, has
\* returned or has raised; the table it returns is another object, and holds
\* every score column that was stored.
C5_InputNotMutated ==
    /\ heap[data] = input0
    /\ pc = "returned" =>
          /\ result # data
          /\ \A m \in Range(merged) : HasColumn(heap[result], m.name)

C5_Witness ==
    /\ pc \in {"returned", "raised"}
    /\ merged # <<>>
    /\ heap[results_df] # heap[data]

\* C6: in a run that completes every adapter is called exactly once, in list
\* order; and at any time, by the time a later compute has been called, every
\* score an earlier call returned is stored in the result table.
C6_OnceInOrder ==
    /\ pc = "returned" =>
          /\ Len(calls) = Len(metrics)
          /\ \A j \in 1..Len(calls) : calls[j].pos = j /\ calls[j].metric = metrics[j]
    /\ \A j \in 1..Len(calls) : \A h \in 1..Len(calls) : j < h => calls[j].pos < calls[h].pos
    /\ \A j \in 1..(Len(calls) - 1) :
          \A n \in 1..Len(calls[j].dict) :
              \E m \in Range(merged) :
                  /\ m.pos = calls[j].pos
                  /\ m.name = calls[j].dict[n].key
                  /\ m.values = calls[j].dict[n].val.list

C6_Witness ==
    /\ pc = "returned"
    /\ Len(calls) = 2
    /\ Len(calls[1].dict) >= 2

\* C7: row order is preserved: in the returned table every base column
\* (original text, degraded text, label) holds in row r what the input table
\* holds in row r, and every stored score list lies in its column row by row.
C7_RowOrderPreserved ==
    pc = "returned" =>
        /\ \A c \in Range(BaseColumns) :
               Column(heap[result], c) = Column(input0, c)
        /\ \A name \in ReturnedKeys \ Range(BaseColumns) :
               \A r \in 1..RowsOf(result) :
                   Column(heap[result], name)[r] =
                       ValueOf(calls[LastWriter(name)].dict, name).list[r]

\* C8: every compute call of a run gets the input table's degraded column as
\* predictions and its original column as references, in row order, whatever
\* the adapters before it returned.
C8_SameView ==
    \A j \in 1..Len(calls) :
        /\ calls[j].predictions = Column(input0, DegradedCol)
        /\ calls[j].references = Column(input0, OriginalCol)

C8_Witness ==
    /\ Len(calls) = 2
    /\ DegradedCol \in Keys(calls[1].dict)
    /\ Len(calls[2].predictions) = MaxRows

\* C9: after a run that completes, every key of every returned dict is a
\* column of the result table, and the result table has no column besides
\* the input table's columns and those keys.
C9_ColumnsAreKeys ==
    pc = "returned" =>
        Range(heap[result].columns) = Range(input0.columns) \cup ReturnedKeys

C9_Witness ==
    /\ pc = "returned"
    /\ Cardinality(ReturnedKeys) >= 4
    /\ ReturnedKeys \cap Range(input0.columns) = {}

\* C10: every adapter of the repository returns, for N pairs (N >= 1), only
\* lists of exactly N values; so does BLEURTWrapper for N = 1.
C10_ScoresHaveInputLength ==
    \A j \in ReturnedCalls :
        (calls[j].metric # "Mock" /\ Len(calls[j].predictions) >= 1) =>
            \A n \in 1..Len(calls[j].dict) :
                /\ calls[j].dict[n].val.kind = "list"
                /\ Len(calls[j].dict[n].val.list) = Len(calls[j].predictions)


\* the single number a corpus-level backend returned under a key, 0.0 when
\* the key is missing
Aggregate(backend, key) ==
    IF \E n \in 1..Len(backend.items) : backend.items[n].key = key
    THEN (CHOOSE it \in Range(backend.items) : it.key = key).val.num
    ELSE 0

AllEqualTo(list, n, v) == Len(list) = n /\ \A r \in 1..n : list[r] = v

\* C11: broadcast: BleuWrapper, MeteorWrapper and RougeWrapper given N pairs
\* return under every score name a list of N values, all of them the
\* backend's one aggregate score (0.0 for BLEU and METEOR when the backend's
\* result lacks the key); ROUGE emits one name per key of the backend.
C11_Broadcast ==
    \A j \in ReturnedCalls :
        LET c == calls[j]
            n == Len(c.predictions)
        IN /\ c.metric = "BleuWrapper" =>
                 /\ Keys(c.dict) = {"bleu_score"}
                 /\ c.dict[1].val.kind = "list"
                 /\ AllEqualTo(c.dict[1].val.list, n, Aggregate(c.backend, "bleu"))
           /\ c.metric = "MeteorWrapper" =>
                 /\ Keys(c.dict) = {"meteor_score"}
                 /\ c.dict[1].val.kind = "list"
                 /\ AllEqualTo(c.dict[1].val.list, n, Aggregate(c.backend, "meteor"))
           /\ c.metric = "RougeWrapper" =>
                 /\ Len(c.dict) = Len(c.backend.items)
                 /\ \A m \in 1..Len(c.dict) :
                        /\ c.dict[m].key = RougeName(c.backend.items[m].key)
                        /\ c.dict[m].val.kind = "list"
                        /\ AllEqualTo(c.dict[m].val.list, n, c.backend.items[m].val.num)

C11_Witness ==
    \E j \in ReturnedCalls :
        /\ calls[j].metric = "BleuWrapper"
        /\ Len(calls[j].predictions) = MaxRows
        /\ calls[j].backend.items = <<>>
        /\ \E h \in ReturnedCalls : calls[h].metric = "RougeWrapper"


\* C12: an adapter whose local resource (the BLEURT checkpoint directory,
\* the METEOR wordnet corpus) is absent is never constructed: every
\* constructed BLEURTWrapper or MeteorWrapper has its resource on disk.
C12_NoAdapterWithoutResource ==
    \A j \in 1..Len(adapters) :
        adapters[j].kind \in {"BLEURTWrapper", "MeteorWrapper"} => adapters[j].resource

\* the driver has got its table from load_data_from_files
Ingested == driver = "main" /\ pc \notin {"new", "no_adapter", "no_runner", "ready"}

\* C13: with no reference-text file, load_data_from_files returns a table of
\* 0 rows whose columns are original_text, degraded_text, degradation_type,
\* and the driver calls neither run nor save_results.
C13_NoReferenceNoRun ==
    (Ingested /\ ~fs.original) =>
        /\ heap[data].index = 0
        /\ heap[data].columns = <<"original_text", "degraded_text", "degradation_type">>
        /\ \A c \in 1..Len(heap[data].data) : heap[data].data[c] = <<>>
        /\ pc \in {"loaded", "skipped"}
        /\ results_df = 0
        /\ calls = <<>>
        /\ result = 0
        /\ saved = <<>>

C13_Witness ==
    /\ Ingested
    /\ ~fs.original
    /\ pc = "skipped"
    /\ Len(fs.listing) = MaxFiles

\* the places in the listing of the .txt files, when the directory exists
TxtPlaces ==
    IF fs.degraded_dir
    THEN {j \in 1..Len(fs.listing) : fs.listing[j].name[2] = "txt"}
    ELSE {}

\* C14: with the reference-text file, the table has the self-comparison row
\* first and then one row per .txt file of the variant directory, in listing
\* order, labelled by the file name without its extension, with the
\* reference text as original_text; without the directory or without .txt
\* files it is the one self-comparison row and a warning, never an error.
C14_OneRowPerVariant ==
    (Ingested /\ fs.original) =>
        /\ input0.columns = <<"original_text", "degraded_text", "degradation_type">>
        /\ input0.index = 1 + Cardinality(TxtPlaces)
        /\ input0.data[1][1] = Text(0)
        /\ input0.data[2][1] = Text(0)
        /\ input0.data[3][1] = Label(0)
        /\ \A j \in TxtPlaces :
              LET row == 1 + Cardinality({h \in TxtPlaces : h <= j})
              IN /\ input0.data[1][row] = Text(0)
                 /\ input0.data[2][row] = fs.listing[j].content
                 /\ \E stem \in 1..3 :
                       /\ input0.data[3][row] = Label(stem)
                       /\ <<stem, "txt">> = fs.listing[j].name
        /\ log # "error"
        /\ TxtPlaces = {} => (input0.index = 1 /\ log = "warning")

C14_Witness ==
    /\ Ingested
    /\ fs.original
    /\ Len(fs.listing) = 2
    /\ fs.listing[1].name[2] = "md"
    /\ fs.listing[2].name[2] = "txt"
    /\ pc = "loaded"

\* C15: the constructor given an empty list raises ValueError and leaves no
\* runner; a constructed runner holds the non-empty list it was given, run
\* never changes it, and every run that returned or raised has called at
\* least one compute.
C15_NeverEmpty ==
    /\ pc = "no_runner" =>
          /\ exc = "ValueError"
          /\ adapters = <<>>
          /\ metrics = <<>>
          /\ results_df = 0
          /\ calls = <<>>
    /\ pc \in {"ready", "loaded", "skipped", "loop", "merge", "returned", "raised", "saved"} =>
          /\ metrics # <<>>
          /\ metrics = KindsOf(adapters)
    /\ pc \in {"returned", "raised", "saved"} => Len(calls) >= 1

C15_Witness ==
    /\ pc = "no_runner"
    /\ driver = "caller"
    /\ exc = "ValueError"

====
